---- MODULE Spec2Model ----
(***************************************************************************)
(* SharedDataContainer of mkurmag/shared_memory_ipc: one container in      *)
(* shared memory, its Producer process (the writer) and the Consumer       *)
(* processes (the readers) that the driver loop of main() runs on it.      *)
(*                                                                         *)
(* A 32-bit state word is modelled as the set of its set bit positions:    *)
(* x | (1 << p) is x \cup {p}, x & ~(1 << p) is x \ {p}, x & m == 0 is     *)
(* x \cap m = {}.  Every atomic access of the code is one step.            *)
(***************************************************************************)
EXTENDS Integers, FiniteSets, Sequences, TLC

\* ------------------------------------------------------------------ bounds
MaxPub == 2        \* WriterUpdateMessage calls started in one behaviour
MaxKills == 1      \* process kills in one behaviour

\* --------------------------------------------------------------- constants
number_of_processes == 3
used_by_writer == 31
NumSlots == number_of_processes + 1
SlotIdx == 0 .. (NumSlots - 1)

\* The producer of the modelled container and the processes reading it.
WriterIndex == number_of_processes - 1
Readers == (0 .. (number_of_processes - 1)) \ {WriterIndex}

\* The index main() also lets through (its test is index > number_of_processes).
\* A process started with it reads this container as well.
Consumers == Readers \cup {number_of_processes}

\* Bit positions of a state word that the model tracks: the consumers' bits
\* (bit number_of_processes stands for all the bits that are no reader-pin
\* bit, too) and the writer's.
ModelBits == Consumers \cup {used_by_writer}
Word == SUBSET ModelBits
\* An uninitialised uint32_t: no element of Word.
Uninit == {-1}

\* A mask 1 << process_index that has the writer bit in it as well.
BitOfAndWriter(process_index) == {process_index, used_by_writer}

BitOf(process_index) == {process_index}
NoMessage == [val |-> 0, pub |-> 0]
NoHandle == -1

VARIABLES
    current_slot_id_,   \* std::atomic<int> current_slot_id_
    used_by,            \* slots[i].used_by
    message,            \* slots[i].message, as two halves of a plain store
    wpc,                \* the writer process: where it is
    w_i,                \* loop index of WriterReset / of the free-slot scan
    next_slot_index,    \* WriterUpdateMessage local
    old_slot_id,        \* WriterUpdateMessage local
    prod_value,         \* main() local of the writer process
    npub,               \* history: number of WriterUpdateMessage calls started
    published,          \* history: number of the call whose publish point came last
    rpc,                \* each reader process: where it is
    r_i,                \* loop index of ReaderReset
    slot_index,         \* ReaderLock local
    current_value,      \* ReaderLock / ReaderUnlock local
    new_value,          \* ReaderLock local
    locked_message_handle_,  \* Consumer field
    seen,               \* history: the message the reader last read (msg->val)
    lock_pub,           \* history: publication current when ReaderLock began
    quiet,              \* history: no WriterUpdateMessage call overlapped the
                        \* ReaderLock call of the handle the reader holds or awaits
    err,                \* the exception that ended a process, "" if none
    kills,              \* history: number of kills so far
    rejected            \* history: the arguments main() returned 1 for

shared == <<current_slot_id_, used_by, message>>
wvars == <<wpc, w_i, next_slot_index, old_slot_id, prod_value, npub, published>>
rvars == <<rpc, r_i, slot_index, current_value, new_value,
           locked_message_handle_, seen, lock_pub, quiet>>
vars == <<current_slot_id_, used_by, message, wpc, w_i, next_slot_index,
          old_slot_id, prod_value, npub, published, rpc, r_i, slot_index, current_value,
          new_value, locked_message_handle_, seen, lock_pub, quiet, err,
          kills, rejected>>

Procs == Consumers \cup {WriterIndex}

\* Publication number of the message a slot holds, 0 when it is torn or the
\* slot was never written.
Complete(m) == m.lo = m.hi
PubOf(i) == IF Complete(message[i]) THEN message[i].lo.pub ELSE 0

\* What a read of slot i's message yields: its publication number, or Torn
\* when the two halves are of different stores.
Torn == -1
Observed(i) == IF Complete(message[i]) THEN message[i].lo.pub ELSE Torn

\* An IsEmpty that never reports an empty container.
IsEmptyNever == FALSE

IsEmpty == current_slot_id_ = 0

\* ---------------------------------------------------------------- Init
\* A fresh, zero-filled shared region, on which Producer::Producer and
\* Consumer::Consumer have run (their resets change nothing in it).
Init ==
    /\ current_slot_id_ = 0
    /\ used_by = [i \in SlotIdx |-> {}]
    /\ message = [i \in SlotIdx |-> [lo |-> NoMessage, hi |-> NoMessage]]
    /\ wpc = "idle"
    /\ w_i = 0
    /\ next_slot_index = 0
    /\ old_slot_id = 0
    /\ prod_value = 0
    /\ npub = 0
    /\ published = 0
    /\ rpc = [r \in Consumers |-> IF r \in Readers THEN "has" ELSE "off"]
    /\ r_i = [r \in Consumers |-> 0]
    /\ slot_index = [r \in Consumers |-> 0]
    /\ current_value = [r \in Consumers |-> {}]
    /\ new_value = [r \in Consumers |-> Uninit]
    /\ locked_message_handle_ = [r \in Consumers |-> NoHandle]
    /\ seen = [r \in Consumers |-> 0]
    /\ lock_pub = [r \in Consumers |-> 0]
    /\ quiet = [r \in Consumers |-> FALSE]
    /\ err = [p \in Procs |-> ""]
    /\ kills = 0
    /\ rejected = {}

\* ------------------------------------------------------------ the writer
\* Producer::Producer runs WriterReset; then main() loops on UpdateMessage.

\* A WriterReset that does not spare the current slot.
WriterResetClearsAll(i) == used_by_writer \in used_by[i]

\* WriterReset, one loop iteration: the test of slot i and its fetch_and.
WriterResetClears(i) ==
    /\ i # current_slot_id_ - 1
    /\ used_by_writer \in used_by[i]

\* A WriterReset that ends by marking the container empty.
WriterResetEmpties ==
    /\ wpc = "wreset"
    /\ used_by' = IF WriterResetClears(w_i)
                  THEN [used_by EXCEPT ![w_i] = @ \ {used_by_writer}]
                  ELSE used_by
    /\ IF w_i + 1 < NumSlots
       THEN /\ w_i' = w_i + 1
            /\ wpc' = "wreset"
            /\ current_slot_id_' = current_slot_id_
       ELSE /\ w_i' = 0
            /\ wpc' = "idle"
            /\ current_slot_id_' = 0
    /\ UNCHANGED <<message, next_slot_index, old_slot_id,
                   prod_value, npub, published, rvars, err, kills, rejected>>

\* A WriterReset that starts over at slot 0 after each bit it has cleared.
WriterResetRescans ==
    /\ wpc = "wreset"
    /\ used_by' = IF WriterResetClears(w_i)
                  THEN [used_by EXCEPT ![w_i] = @ \ {used_by_writer}]
                  ELSE used_by
    /\ IF WriterResetClears(w_i)
       THEN /\ w_i' = 0
            /\ wpc' = "wreset"
       ELSE IF w_i + 1 < NumSlots
       THEN /\ w_i' = w_i + 1
            /\ wpc' = "wreset"
       ELSE /\ w_i' = 0
            /\ wpc' = "idle"
    /\ UNCHANGED <<current_slot_id_, message, next_slot_index, old_slot_id,
                   prod_value, npub, published, rvars, err, kills, rejected>>

WriterReset ==
    /\ wpc = "wreset"
    /\ used_by' = IF WriterResetClears(w_i)
                  THEN [used_by EXCEPT ![w_i] = @ \ {used_by_writer}]
                  ELSE used_by
    /\ IF w_i + 1 < NumSlots
       THEN /\ w_i' = w_i + 1
            /\ wpc' = "wreset"
       ELSE /\ w_i' = 0
            /\ wpc' = "idle"
    /\ UNCHANGED <<current_slot_id_, message, next_slot_index, old_slot_id,
                   prod_value, npub, published, rvars, err, kills, rejected>>

\* Reader r is inside ReaderLock.
InLock(r) == rpc[r] \in {"load_id", "load_state", "cas"}

\* The steps of the writer that are inside WriterUpdateMessage.
InUpdate == {"scan", "write_lo", "write_hi", "mark", "publish", "clear"}

\* main(): prod_value++ and the call of producer.UpdateMessage.
WriterBegin(maxpub) ==
    /\ wpc = "idle"
    /\ npub < maxpub
    /\ prod_value' = prod_value + 1
    /\ npub' = npub + 1
    /\ w_i' = 0
    /\ wpc' = "scan"
    /\ quiet' = [r \in Consumers |-> quiet[r] /\ ~InLock(r)]
    /\ UNCHANGED <<shared, next_slot_index, old_slot_id, published, rpc, r_i,
                   slot_index, current_value, new_value,
                   locked_message_handle_, seen, lock_pub, err, kills,
                   rejected>>

\* A free-slot test that looks at the writer bit only.
SlotIsFreeOfWriter(i) == used_by_writer \notin used_by[i]

\* WriterUpdateMessage, the free-slot lambda: one load of slots[i].used_by.
SlotIsFree(i) == used_by[i] = {}

WriterScan ==
    /\ wpc = "scan"
    /\ IF SlotIsFree(w_i)
       THEN /\ next_slot_index' = w_i
            /\ w_i' = 0
            /\ wpc' = "write_lo"
            /\ err' = err
       ELSE IF w_i + 1 < NumSlots
       THEN /\ w_i' = w_i + 1
            /\ UNCHANGED <<next_slot_index, wpc, err>>
       ELSE /\ w_i' = 0
            /\ wpc' = "aborted"
            /\ err' = [err EXCEPT ![WriterIndex] = "NO_FREE_SLOT"]
            /\ UNCHANGED next_slot_index
    /\ UNCHANGED <<shared, old_slot_id, prod_value, npub, published, rvars,
                   kills, rejected>>

\* slots[next_slot_index].message = msg: a plain 64-bit store, in two halves.
WriterWriteLo ==
    /\ wpc = "write_lo"
    /\ message' = [message EXCEPT ![next_slot_index].lo =
                       [val |-> prod_value, pub |-> npub]]
    /\ wpc' = "write_hi"
    /\ UNCHANGED <<current_slot_id_, used_by, w_i, next_slot_index,
                   old_slot_id, prod_value, npub, published, rvars, err, kills, rejected>>

WriterWriteHi ==
    /\ wpc = "write_hi"
    /\ message' = [message EXCEPT ![next_slot_index].hi =
                       [val |-> prod_value, pub |-> npub]]
    /\ wpc' = "mark"
    /\ UNCHANGED <<current_slot_id_, used_by, w_i, next_slot_index,
                   old_slot_id, prod_value, npub, published, rvars, err, kills, rejected>>

\* A WriterUpdateMessage that goes on to the publish point without the
\* atomic_fetch_or.
WriterMarkSkipped ==
    /\ wpc = "mark"
    /\ used_by' = used_by
    /\ wpc' = "publish"
    /\ UNCHANGED <<current_slot_id_, message, w_i, next_slot_index,
                   old_slot_id, prod_value, npub, published, rvars, err, kills, rejected>>

\* atomic_fetch_or(&slots[next_slot_index].used_by, used_by_writer)
WriterMark ==
    /\ wpc = "mark"
    /\ used_by' = [used_by EXCEPT ![next_slot_index] = @ \cup {used_by_writer}]
    /\ wpc' = "publish"
    /\ UNCHANGED <<current_slot_id_, message, w_i, next_slot_index,
                   old_slot_id, prod_value, npub, published, rvars, err, kills, rejected>>

\* A publish point that stores the slot's index, not its id.
WriterPublishIndex ==
    /\ wpc = "publish"
    /\ old_slot_id' = current_slot_id_
    /\ current_slot_id_' = next_slot_index
    /\ published' = npub
    /\ wpc' = "clear"
    /\ UNCHANGED <<used_by, message, w_i, next_slot_index, prod_value, npub,
                   rvars, err, kills, rejected>>

\* old_slot_id = current_slot_id_; current_slot_id_ = next_slot_index + 1
WriterPublish ==
    /\ wpc = "publish"
    /\ old_slot_id' = current_slot_id_
    /\ current_slot_id_' = next_slot_index + 1
    /\ published' = npub
    /\ wpc' = "clear"
    /\ UNCHANGED <<used_by, message, w_i, next_slot_index, prod_value, npub,
                   rvars, err, kills, rejected>>

\* if (old_slot_id > 0) fetch_and(&slots[old_slot_id - 1].used_by, ~used_by_writer)
WriterClear ==
    /\ wpc = "clear"
    /\ used_by' = IF old_slot_id > 0
                  THEN [used_by EXCEPT ![old_slot_id - 1] = @ \ {used_by_writer}]
                  ELSE used_by
    /\ wpc' = "idle"
    /\ next_slot_index' = 0
    /\ old_slot_id' = 0
    /\ UNCHANGED <<current_slot_id_, message, w_i, prod_value, npub,
                   published, rvars, err, kills, rejected>>

\* run.sh kills the process (any point), and starts it again later.
WriterKill(maxkills) ==
    /\ wpc \notin {"dead", "aborted"}
    /\ kills < maxkills
    /\ kills' = kills + 1
    /\ wpc' = "dead"
    /\ w_i' = 0
    /\ next_slot_index' = 0
    /\ old_slot_id' = 0
    /\ prod_value' = 0
    /\ UNCHANGED <<shared, npub, published, rvars, err, rejected>>

WriterRestart ==
    /\ wpc = "dead"
    /\ wpc' = "wreset"
    /\ UNCHANGED <<shared, w_i, next_slot_index, old_slot_id, prod_value,
                   npub, published, rvars, err, kills, rejected>>

Writer(maxpub) ==
    \/ WriterReset
    \/ WriterBegin(maxpub)
    \/ WriterScan
    \/ WriterWriteLo
    \/ WriterWriteHi
    \/ WriterMark
    \/ WriterPublish
    \/ WriterClear

\* ------------------------------------------------------------ the readers
\* Consumer::Consumer runs ReaderReset(process_index_); then main() loops on
\* HasMessage / LockMessage / msg->val / UnlockMessage.

Abort(r, what) ==
    /\ rpc' = [rpc EXCEPT ![r] = "aborted"]
    /\ err' = [err EXCEPT ![r] = what]

\* ReaderReset, the test of slot i: one load of slots[i].used_by.
ReaderResetLoad(r) ==
    /\ rpc[r] = "reset_load"
    /\ IF BitOf(r) \subseteq used_by[r_i[r]]
       THEN /\ rpc' = [rpc EXCEPT ![r] = "reset_and"]
            /\ r_i' = r_i
       ELSE IF r_i[r] + 1 < NumSlots
       THEN /\ r_i' = [r_i EXCEPT ![r] = @ + 1]
            /\ rpc' = rpc
       ELSE /\ r_i' = [r_i EXCEPT ![r] = 0]
            /\ rpc' = [rpc EXCEPT ![r] = "has"]
    /\ UNCHANGED <<shared, wvars, slot_index, current_value, new_value,
                   locked_message_handle_, seen, lock_pub, quiet, err, kills, rejected>>

\* ReaderReset: atomic_fetch_and(&slots[i].used_by, ~(1 << process_index))
ReaderResetAnd(r) ==
    /\ rpc[r] = "reset_and"
    /\ used_by' = [used_by EXCEPT ![r_i[r]] = @ \ BitOf(r)]
    /\ IF r_i[r] + 1 < NumSlots
       THEN /\ r_i' = [r_i EXCEPT ![r] = @ + 1]
            /\ rpc' = [rpc EXCEPT ![r] = "reset_load"]
       ELSE /\ r_i' = [r_i EXCEPT ![r] = 0]
            /\ rpc' = [rpc EXCEPT ![r] = "has"]
    /\ UNCHANGED <<current_slot_id_, message, wvars, slot_index,
                   current_value, new_value, locked_message_handle_, seen,
                   lock_pub, quiet, err, kills, rejected>>

\* main(): if (consumer.HasMessage()) ... else print "empty"
HasMessage(r) ==
    /\ rpc[r] = "has"
    /\ rpc' = IF IsEmpty THEN rpc ELSE [rpc EXCEPT ![r] = "lock"]
    /\ UNCHANGED <<shared, wvars, r_i, slot_index, current_value, new_value,
                   locked_message_handle_, seen, lock_pub, quiet, err, kills, rejected>>

\* Consumer::LockMessage, and ReaderLock up to its loop: the two tests of
\* current_slot_id_ == 0 (the only store to it stores next_slot_index + 1,
\* so the second load finds what the first found) and the declaration of
\* the locals.
LockMessage(r, obs) ==
    /\ rpc[r] = "lock"
    /\ IF locked_message_handle_[r] # NoHandle
       THEN /\ Abort(r, "CONSUMER_DOUBLE_LOCK")
            /\ UNCHANGED <<new_value, lock_pub, quiet>>
       ELSE IF IsEmpty
       THEN /\ Abort(r, "CONSUMER_EMPTY")
            /\ UNCHANGED <<new_value, lock_pub, quiet>>
       ELSE /\ rpc' = [rpc EXCEPT ![r] = "load_id"]
            /\ new_value' = [new_value EXCEPT ![r] = Uninit]
            /\ lock_pub' = IF obs THEN [lock_pub EXCEPT ![r] = published]
                                 ELSE lock_pub
            /\ quiet' = IF obs THEN [quiet EXCEPT ![r] = wpc \notin InUpdate]
                              ELSE quiet
            /\ err' = err
    /\ UNCHANGED <<shared, wvars, r_i, slot_index, current_value,
                   locked_message_handle_, seen, kills, rejected>>

\* slot_index = current_slot_id_ - 1
ReaderLoadId(r) ==
    /\ rpc[r] = "load_id"
    /\ slot_index' = [slot_index EXCEPT ![r] = current_slot_id_ - 1]
    /\ rpc' = [rpc EXCEPT ![r] = "load_state"]
    /\ UNCHANGED <<shared, wvars, r_i, current_value, new_value,
                   locked_message_handle_, seen, lock_pub, quiet, err, kills, rejected>>

\* A ReaderLock loop body without the test of the caller's own bit.
ReaderLoadStateUnchecked(r) ==
    /\ rpc[r] = "load_state"
    /\ LET cv == used_by[slot_index[r]] IN
       /\ current_value' = [current_value EXCEPT ![r] = cv]
       /\ IF used_by_writer \notin cv
          THEN /\ rpc' = [rpc EXCEPT ![r] = "cas"]
               /\ UNCHANGED <<new_value, err>>
          ELSE /\ new_value' = [new_value EXCEPT ![r] = cv \cup BitOf(r)]
               /\ rpc' = [rpc EXCEPT ![r] = "cas"]
               /\ err' = err
    /\ UNCHANGED <<shared, wvars, r_i, slot_index, locked_message_handle_,
                   seen, lock_pub, quiet, kills, rejected>>

\* current_value = slots[slot_index].used_by and the two tests on it.  The
\* `continue` of a do-while goes to the loop condition, which is the CAS.
ReaderLoadState(r) ==
    /\ rpc[r] = "load_state"
    /\ LET cv == used_by[slot_index[r]] IN
       /\ current_value' = [current_value EXCEPT ![r] = cv]
       /\ IF used_by_writer \notin cv
          THEN /\ rpc' = [rpc EXCEPT ![r] = "cas"]
               /\ UNCHANGED <<new_value, err>>
          ELSE IF BitOf(r) \subseteq cv
          THEN /\ Abort(r, "DOUBLE_LOCK")
               /\ UNCHANGED new_value
          ELSE /\ new_value' = [new_value EXCEPT ![r] = cv \cup BitOf(r)]
               /\ rpc' = [rpc EXCEPT ![r] = "cas"]
               /\ err' = err
    /\ UNCHANGED <<shared, wvars, r_i, slot_index, locked_message_handle_,
                   seen, lock_pub, quiet, kills, rejected>>

\* The values the CAS may store: new_value, or anything when it was never
\* assigned (a read of an uninitialised variable).
Stored(nv) == IF nv = Uninit THEN Word ELSE {nv}

\* atomic_compare_exchange_weak succeeds: the loop ends, ReaderLock returns
\* slot_index and Consumer::LockMessage keeps it in locked_message_handle_.
ReaderCasSuccess(r) ==
    /\ rpc[r] = "cas"
    /\ used_by[slot_index[r]] = current_value[r]
    /\ \E nv \in Stored(new_value[r]) :
           used_by' = [used_by EXCEPT ![slot_index[r]] = nv]
    /\ locked_message_handle_' =
           [locked_message_handle_ EXCEPT ![r] = slot_index[r]]
    /\ rpc' = [rpc EXCEPT ![r] = "read"]
    /\ slot_index' = [slot_index EXCEPT ![r] = 0]
    /\ current_value' = [current_value EXCEPT ![r] = {}]
    /\ new_value' = [new_value EXCEPT ![r] = Uninit]
    /\ UNCHANGED <<current_slot_id_, message, wvars, r_i, seen, lock_pub, quiet,
                   err, kills, rejected>>

\* atomic_compare_exchange_weak fails, because the word differs or
\* spuriously: the loop body runs again; new_value keeps its value.
ReaderCasFail(r) ==
    /\ rpc[r] = "cas"
    /\ rpc' = [rpc EXCEPT ![r] = "load_id"]
    /\ slot_index' = [slot_index EXCEPT ![r] = 0]
    /\ current_value' = [current_value EXCEPT ![r] = {}]
    /\ UNCHANGED <<shared, wvars, r_i, new_value, locked_message_handle_,
                   seen, lock_pub, quiet, err, kills, rejected>>

\* main(): msg->val is read through the pointer LockMessage returned.
ReadMessage(r, obs) ==
    /\ rpc[r] = "read"
    /\ seen' = IF obs THEN [seen EXCEPT ![r] = Observed(locked_message_handle_[r])]
                      ELSE seen
    /\ rpc' = [rpc EXCEPT ![r] = "unlock_load"]
    /\ lock_pub' = [lock_pub EXCEPT ![r] = 0]
    /\ UNCHANGED <<shared, wvars, r_i, slot_index, current_value, new_value,
                   locked_message_handle_, quiet, err, kills, rejected>>

\* Consumer::UnlockMessage and ReaderUnlock up to its test.
UnlockMessage(r) ==
    /\ rpc[r] = "unlock_load"
    /\ IF locked_message_handle_[r] = NoHandle
       THEN Abort(r, "CONSUMER_NOT_LOCKED")
       ELSE IF ~(BitOf(r) \subseteq used_by[locked_message_handle_[r]])
       THEN Abort(r, "NOT_LOCKED")
       ELSE /\ rpc' = [rpc EXCEPT ![r] = "unlock_and"]
            /\ err' = err
    /\ UNCHANGED <<shared, wvars, r_i, slot_index, current_value, new_value,
                   locked_message_handle_, seen, lock_pub, quiet, kills, rejected>>

\* ReaderUnlock: atomic_fetch_and(&slots[handle].used_by, ~(1 << process_index))
ReaderUnlockAnd(r) ==
    /\ rpc[r] = "unlock_and"
    /\ used_by' = [used_by EXCEPT ![locked_message_handle_[r]] = @ \ BitOf(r)]
    /\ locked_message_handle_' = [locked_message_handle_ EXCEPT ![r] = NoHandle]
    /\ rpc' = [rpc EXCEPT ![r] = "has"]
    /\ quiet' = [quiet EXCEPT ![r] = FALSE]
    /\ UNCHANGED <<current_slot_id_, message, wvars, r_i, slot_index,
                   current_value, new_value, seen, lock_pub, err, kills, rejected>>

ReaderKill(r, maxkills) ==
    /\ rpc[r] \notin {"dead", "aborted"}
    /\ kills < maxkills
    /\ kills' = kills + 1
    /\ rpc' = [rpc EXCEPT ![r] = "dead"]
    /\ r_i' = [r_i EXCEPT ![r] = 0]
    /\ slot_index' = [slot_index EXCEPT ![r] = 0]
    /\ current_value' = [current_value EXCEPT ![r] = {}]
    /\ new_value' = [new_value EXCEPT ![r] = Uninit]
    /\ locked_message_handle_' = [locked_message_handle_ EXCEPT ![r] = NoHandle]
    /\ lock_pub' = [lock_pub EXCEPT ![r] = 0]
    /\ quiet' = [quiet EXCEPT ![r] = FALSE]
    /\ UNCHANGED <<shared, wvars, seen, err, rejected>>

ReaderRestart(r) ==
    /\ rpc[r] = "dead"
    /\ rpc' = [rpc EXCEPT ![r] = "reset_load"]
    /\ UNCHANGED <<shared, wvars, r_i, slot_index, current_value, new_value,
                   locked_message_handle_, seen, lock_pub, quiet, err, kills, rejected>>

\* main() of a process started with argv[1] == a: the usage and range tests,
\* then Producer (of another container) and the Consumer of this one.
\* process_index > number_of_processes compares an int with an unsigned: the
\* int is converted, and a negative one becomes a value of at least 2^31.
UnsignedGreater(x, n) == x < 0 \/ x > n
MainAccepts(a) == ~UnsignedGreater(a, number_of_processes)

Main(a) ==
    /\ IF MainAccepts(a)
       THEN /\ a \in Consumers
            /\ rpc[a] = "off"
            /\ rpc' = [rpc EXCEPT ![a] = "reset_load"]
            /\ rejected' = rejected
       ELSE /\ a \notin rejected
            /\ rejected' = rejected \cup {a}
            /\ rpc' = rpc
    /\ UNCHANGED <<shared, wvars, r_i, slot_index, current_value, new_value,
                   locked_message_handle_, seen, lock_pub, quiet, err, kills>>

Reader(r, obs) ==
    \/ ReaderResetLoad(r)
    \/ ReaderResetAnd(r)
    \/ HasMessage(r)
    \/ LockMessage(r, obs)
    \/ ReaderLoadId(r)
    \/ ReaderLoadState(r)
    \/ ReaderCasSuccess(r)
    \/ ReaderCasFail(r)
    \/ ReadMessage(r, obs)
    \/ UnlockMessage(r)
    \/ ReaderUnlockAnd(r)

\* The processes in RS and the writer run, interleaved; run.sh kills and
\* restarts them.  obs: whether the history variables seen and lock_pub
\* are recorded.
Step(RS, maxpub, maxkills, obs) ==
    \/ Writer(maxpub)
    \/ WriterKill(maxkills)
    \/ WriterRestart
    \/ \E r \in RS : Reader(r, obs)
    \/ \E r \in RS : ReaderKill(r, maxkills)
    \/ \E r \in RS : ReaderRestart(r)

Next == Step(Readers, MaxPub, MaxKills, FALSE)

Spec == Init /\ [][Next]_vars

\* The behaviours in which only reader 0 is scheduled, with more
\* publications and with the history variables recorded.
MaxPubOne == MaxPub + 3
NextOne == Step({0}, MaxPubOne, MaxKills, TRUE)

SpecOne == Init /\ [][NextOne]_vars

\* The behaviours in which a process is started with an index argument
\* outside [0, number_of_processes) while readers 0 and 1 are not scheduled.
ArgValues == {-1, number_of_processes, number_of_processes + 1}
NextMain ==
    \/ \E a \in ArgValues : Main(a)
    \/ Step({number_of_processes}, MaxPub, MaxKills, FALSE)

SpecMain == Init /\ [][NextMain]_vars

\* The behaviours of Spec, with the history variables recorded.
NextObs == Step(Readers, MaxPub, MaxKills, TRUE)

SpecObs == Init /\ [][NextObs]_vars

\* ------------------------------------------- callers of the container
\* A caller that uses SharedDataContainer directly, as the test cases do:
\* between two calls caller r is at "has"; it may call ReaderLock(r) while
\* it holds pins, ReaderUnlock(r, handle) with any handle, and ReaderReset(r)
\* at any time, and it catches what a call throws.

\* ReaderLock(r) up to its loop: the test of current_slot_id_ == 0.
CallReaderLock(r) ==
    /\ rpc[r] = "has"
    /\ IF IsEmpty
       THEN /\ Abort(r, "EMPTY")
            /\ UNCHANGED new_value
       ELSE /\ rpc' = [rpc EXCEPT ![r] = "load_id"]
            /\ new_value' = [new_value EXCEPT ![r] = Uninit]
            /\ err' = err
    /\ UNCHANGED <<shared, wvars, r_i, slot_index, current_value,
                   locked_message_handle_, seen, lock_pub, quiet, kills,
                   rejected>>

\* The caller has the handle ReaderLock returned and goes on.
CallReturns(r) ==
    /\ rpc[r] = "read"
    /\ rpc' = [rpc EXCEPT ![r] = "has"]
    /\ locked_message_handle_' = [locked_message_handle_ EXCEPT ![r] = NoHandle]
    /\ UNCHANGED <<shared, wvars, r_i, slot_index, current_value, new_value,
                   seen, lock_pub, quiet, err, kills, rejected>>

\* ReaderUnlock(r, handle) up to its test: one load of slots[handle].used_by.
CallReaderUnlock(r, handle) ==
    /\ rpc[r] = "has"
    /\ IF ~(BitOf(r) \subseteq used_by[handle])
       THEN /\ Abort(r, "NOT_LOCKED")
            /\ UNCHANGED locked_message_handle_
       ELSE /\ rpc' = [rpc EXCEPT ![r] = "unlock_and"]
            /\ locked_message_handle_' =
                   [locked_message_handle_ EXCEPT ![r] = handle]
            /\ err' = err
    /\ UNCHANGED <<shared, wvars, r_i, slot_index, current_value, new_value,
                   seen, lock_pub, quiet, kills, rejected>>

\* ReaderReset(r) is called.
CallReaderReset(r) ==
    /\ rpc[r] = "has"
    /\ rpc' = [rpc EXCEPT ![r] = "reset_load"]
    /\ r_i' = [r_i EXCEPT ![r] = 0]
    /\ UNCHANGED <<shared, wvars, slot_index, current_value, new_value,
                   locked_message_handle_, seen, lock_pub, quiet, err, kills,
                   rejected>>

\* The caller catches the exception of the call (REQUIRE_THROWS).
CallCatches(r) ==
    /\ rpc[r] = "aborted"
    /\ rpc' = [rpc EXCEPT ![r] = "has"]
    /\ err' = [err EXCEPT ![r] = ""]
    /\ slot_index' = [slot_index EXCEPT ![r] = 0]
    /\ current_value' = [current_value EXCEPT ![r] = {}]
    /\ new_value' = [new_value EXCEPT ![r] = Uninit]
    /\ UNCHANGED <<shared, wvars, r_i, locked_message_handle_, seen, lock_pub,
                   quiet, kills, rejected>>

\* WriterReset is called.
CallWriterReset ==
    /\ wpc = "idle"
    /\ wpc' = "wreset"
    /\ w_i' = 0
    /\ UNCHANGED <<shared, next_slot_index, old_slot_id, prod_value, npub,
                   published, rvars, err, kills, rejected>>

Caller(r) ==
    \/ CallReaderLock(r)
    \/ ReaderLoadId(r)
    \/ ReaderLoadState(r)
    \/ ReaderCasSuccess(r)
    \/ ReaderCasFail(r)
    \/ CallReturns(r)
    \/ \E handle \in SlotIdx : CallReaderUnlock(r, handle)
    \/ ReaderUnlockAnd(r)
    \/ CallReaderReset(r)
    \/ ReaderResetLoad(r)
    \/ ReaderResetAnd(r)
    \/ CallCatches(r)

\* The behaviours of the container under such callers and a writer that
\* publishes and resets.
NextCall ==
    \/ Writer(MaxPub)
    \/ CallWriterReset
    \/ \E r \in Readers : Caller(r)

SpecCall == Init /\ [][NextCall]_vars

\* The same with caller 0 only and more publications.
NextCallOne ==
    \/ Writer(MaxPubOne)
    \/ CallWriterReset
    \/ Caller(0)

SpecCallOne == Init /\ [][NextCallOne]_vars

\* --------------------------------------------- callers of the adapter
\* A caller that uses Consumer as its public functions allow: LockMessage
\* and UnlockMessage in any order, catching what they throw.

\* Consumer::LockMessage is called.
CallLockMessage(r) ==
    /\ rpc[r] = "has"
    /\ rpc' = [rpc EXCEPT ![r] = "lock"]
    /\ UNCHANGED <<shared, wvars, r_i, slot_index, current_value, new_value,
                   locked_message_handle_, seen, lock_pub, quiet, err, kills,
                   rejected>>

\* Consumer::LockMessage returns; locked_message_handle_ keeps the handle.
LockMessageReturns(r) ==
    /\ rpc[r] = "read"
    /\ rpc' = [rpc EXCEPT ![r] = "has"]
    /\ UNCHANGED <<shared, wvars, r_i, slot_index, current_value, new_value,
                   locked_message_handle_, seen, lock_pub, quiet, err, kills,
                   rejected>>

\* Consumer::UnlockMessage is called.
CallUnlockMessage(r) ==
    /\ rpc[r] = "has"
    /\ rpc' = [rpc EXCEPT ![r] = "unlock_load"]
    /\ UNCHANGED <<shared, wvars, r_i, slot_index, current_value, new_value,
                   locked_message_handle_, seen, lock_pub, quiet, err, kills,
                   rejected>>

ConsumerCaller(r) ==
    \/ CallLockMessage(r)
    \/ LockMessage(r, FALSE)
    \/ ReaderLoadId(r)
    \/ ReaderLoadState(r)
    \/ ReaderCasSuccess(r)
    \/ ReaderCasFail(r)
    \/ LockMessageReturns(r)
    \/ CallUnlockMessage(r)
    \/ UnlockMessage(r)
    \/ ReaderUnlockAnd(r)
    \/ CallCatches(r)

\* The behaviours of the container under such callers and the writer.
NextConsumer ==
    \/ Writer(MaxPub)
    \/ CallWriterReset
    \/ \E r \in Readers : ConsumerCaller(r)

SpecConsumer == Init /\ [][NextConsumer]_vars

\* The behaviours in which no process is killed: the writer publishes up to
\* MaxPub + 1 messages and both readers repeat lock, read, unlock, with
\* the history variables recorded.
MaxPubRun == MaxPub + 1
NextRun ==
    \/ WriterBegin(MaxPubRun)
    \/ WriterScan
    \/ WriterWriteLo
    \/ WriterWriteHi
    \/ WriterMark
    \/ WriterPublish
    \/ WriterClear
    \/ \E r \in Readers :
          \/ HasMessage(r)
          \/ LockMessage(r, TRUE)
          \/ ReaderLoadId(r)
          \/ ReaderLoadState(r)
          \/ ReaderCasSuccess(r)
          \/ ReaderCasFail(r)
          \/ ReadMessage(r, TRUE)
          \/ UnlockMessage(r)
          \/ ReaderUnlockAnd(r)

SpecRun == Init /\ [][NextRun]_vars

\* ---------------------------------------------------------------- claims
WriterBits(i) == used_by[i] \cap {used_by_writer}
ReaderPinBits(i) == used_by[i] \cap (0 .. (number_of_processes - 1))
\* Reader r is between the return of ReaderLock and the end of ReaderUnlock.
HoldsHandle(r) ==
    /\ rpc[r] \in {"read", "unlock_load", "unlock_and"}
    /\ locked_message_handle_[r] # NoHandle
\* ReaderLock of r returns in this step.
LockReturns(r) == rpc[r] = "cas" /\ rpc'[r] = "read"

\* C1: while reader r holds the handle ReaderLock returned, the message in
\* that slot is one complete published value and no step changes it.
C1_PinnedPayloadStable ==
    [][\A r \in Readers :
          HoldsHandle(r) =>
              /\ Complete(message[locked_message_handle_[r]])
              /\ message[locked_message_handle_[r]].lo.pub >= 1
              /\ message'[locked_message_handle_[r]] =
                     message[locked_message_handle_[r]]]_vars

\* C2: with readers that hold one pin at a time (every reader goes through
\* Consumer), WriterUpdateMessage never throws "No free slots for writer".
C2_NoFreeSlotUnreachable == err[WriterIndex] # "NO_FREE_SLOT"

\* C3: the publication a reader finds in the slot ReaderLock returns is never
\* older than one it has read before.
C3_MonotoneReads ==
    [][\A r \in Readers :
          (LockReturns(r) /\ Complete(message[locked_message_handle_'[r]]))
              => message[locked_message_handle_'[r]].lo.pub >= seen[r]]_vars

\* C4: the slot ReaderLock returns holds, at the return, a complete message
\* that has passed its publish point.
C4_ReturnsPublished ==
    [][\A r \in Readers :
          LockReturns(r) =>
              /\ Complete(message[locked_message_handle_'[r]])
              /\ message[locked_message_handle_'[r]].lo.pub >= 1
              /\ message[locked_message_handle_'[r]].lo.pub <= published]_vars

\* C5: the slot ReaderLock returns holds the message of the publication that
\* was current when the call began, or of a later one.
C5_NotOlderThanAtCall ==
    [][\A r \in Readers :
          LockReturns(r) =>
              /\ Complete(message[locked_message_handle_'[r]])
              /\ message[locked_message_handle_'[r]].lo.pub >= lock_pub[r]]_vars

\* C6: a step of ReaderLock changes a state word only from a value with the
\* writer bit set to that value plus the caller's bit, and no step sets a
\* reader's bit on a slot whose writer bit is clear.
C6_CasOnlyOnWriterOwned ==
    [][/\ \A r \in Readers :
             LockReturns(r) =>
                 /\ used_by_writer \in used_by[slot_index[r]]
                 /\ used_by' = [used_by EXCEPT ![slot_index[r]] = @ \cup BitOf(r)]
       /\ \A i \in SlotIdx : \A r \in Readers :
             (r \in used_by'[i] /\ r \notin used_by[i]) =>
                 used_by_writer \in used_by[i]]_vars

\* C7 (G1): a non-empty container's current slot has the writer bit or a
\* reader-pin bit set.
C7_G1 ==
    current_slot_id_ # 0 =>
        \/ WriterBits(current_slot_id_ - 1) # {}
        \/ ReaderPinBits(current_slot_id_ - 1) # {}

\* The writer was killed and has restarted; its WriterReset has gone past the
\* current slot of a non-empty container, which a reader has pinned.
C7_Witness ==
    /\ current_slot_id_ # 0
    /\ wpc = "wreset"
    /\ w_i > current_slot_id_ - 1
    /\ \E r \in Readers :
           /\ HoldsHandle(r)
           /\ locked_message_handle_[r] = current_slot_id_ - 1

\* C8 (G2): with at most number_of_processes - 1 readers, each holding at
\* most one pin, some slot has used_by == 0 in every reachable state.
C8_G2 == \E i \in SlotIdx : used_by[i] = {}

\* C9 (S2): the writer bit is set on at most two slots, only on the slot
\* being populated and the current or previously current one; when the
\* writer is outside WriterUpdateMessage and WriterReset, exactly on the
\* current slot.
WriterOwned == {i \in SlotIdx : used_by_writer \in used_by[i]}
CurrentSlot == IF current_slot_id_ = 0 THEN {} ELSE {current_slot_id_ - 1}
C9_S2 ==
    /\ Cardinality(WriterOwned) <= 2
    /\ wpc \in {"scan", "write_lo", "write_hi", "mark"} =>
           WriterOwned \subseteq CurrentSlot
    /\ wpc = "publish" => WriterOwned \subseteq CurrentSlot \cup {next_slot_index}
    /\ wpc = "clear" =>
           WriterOwned \subseteq CurrentSlot \cup {old_slot_id - 1}
    /\ wpc = "idle" => WriterOwned = CurrentSlot

\* C10: only bits [0, number_of_processes) and bit 31 are ever set in a
\* state word.
C10_OnlyPinAndWriterBits ==
    \A i \in SlotIdx :
        used_by[i] \subseteq (0 .. (number_of_processes - 1)) \cup {used_by_writer}

\* C11: a writer killed inside WriterUpdateMessage leaves the writer bit on at
\* most one slot that is not the current one; when the WriterReset of the
\* restarted writer completes, the writer bit is set on exactly the current
\* slot (on none in an empty container); and the first WriterUpdateMessage of
\* the restarted writer finds a free slot.
C11_WriterCrashRecovery ==
    [][/\ (wpc \in InUpdate /\ wpc' = "dead") =>
              Cardinality(WriterOwned \ CurrentSlot) <= 1
       /\ (wpc = "wreset" /\ wpc' = "idle") => WriterOwned' = CurrentSlot'
       /\ (wpc = "scan" /\ prod_value = 1) => wpc' # "aborted"]_vars

\* A step of WriterReset: one loop iteration.
WriterResetStep == wpc = "wreset" /\ (wpc' = "idle" \/ w_i' = w_i + 1)

\* C12: WriterReset visits every slot, from 0 to the last; the iteration for
\* slot i leaves slot i without the writer bit unless i is the current slot,
\* and changes nothing else: no other bit of any word, not the writer bit of
\* the current slot, not current_slot_id_, no message.
C12_WriterResetFrame ==
    [][/\ (wpc # "wreset" /\ wpc' = "wreset") => w_i' = 0
       /\ (wpc = "wreset" /\ wpc' = "idle") => w_i = NumSlots - 1
       /\ WriterResetStep =>
              /\ current_slot_id_' = current_slot_id_
              /\ message' = message
              /\ \A i \in SlotIdx :
                     used_by'[i] = IF i = w_i /\ i # current_slot_id_ - 1
                                   THEN used_by[i] \ {used_by_writer}
                                   ELSE used_by[i]]_vars

\* WriterReset is under way after a kill between the fetch_or and the
\* publish point: it has done slot 0, a stray writer bit is still ahead of
\* it, and a reader holds a pin.
C12_Witness ==
    /\ wpc = "wreset"
    /\ w_i >= 1
    /\ \E i \in SlotIdx :
           i >= w_i /\ i # current_slot_id_ - 1 /\ used_by_writer \in used_by[i]
    /\ \E r \in Readers : HoldsHandle(r)

\* A step of ReaderReset by r: its test of a slot, or its fetch_and.
ReaderResetTest(r) ==
    /\ rpc[r] = "reset_load"
    /\ rpc'[r] # "dead"
    /\ (rpc'[r] # "reset_load" \/ r_i'[r] # r_i[r])
ReaderResetClear(r) == rpc[r] = "reset_and" /\ rpc'[r] \notin {"reset_and", "dead"}

\* C13: ReaderReset(r) starts at slot 0 and ends after the last slot; it
\* passes no slot whose word has bit r without clearing it; its fetch_and
\* removes bit r from that word and changes no other bit of any word; no step
\* of it changes current_slot_id_ or a message; on words without bit r it
\* writes nothing.
C13_ReaderResetFrame ==
    [][\A r \in Readers :
          /\ (rpc[r] \notin {"reset_load", "reset_and"} /\ rpc'[r] = "reset_load")
                 => r_i'[r] = 0
          /\ (rpc[r] \in {"reset_load", "reset_and"} /\ rpc'[r] = "has")
                 => r_i[r] = NumSlots - 1
          /\ ReaderResetTest(r) =>
                 /\ UNCHANGED shared
                 /\ r \in used_by[r_i[r]] =>
                        (rpc'[r] = "reset_and" /\ r_i'[r] = r_i[r])
                 /\ r \notin used_by[r_i[r]] => rpc'[r] # "reset_and"
          /\ ReaderResetClear(r) =>
                 /\ current_slot_id_' = current_slot_id_
                 /\ message' = message
                 /\ used_by' = [used_by EXCEPT ![r_i[r]] = @ \ {r}]]_vars

\* Reader r was killed holding a pin and has restarted; its ReaderReset has
\* found the pin, on a word that has other bits too, and is about to clear
\* it while the writer is inside WriterUpdateMessage.
C13_Witness ==
    \E r \in Readers :
        /\ rpc[r] = "reset_and"
        /\ r \in used_by[r_i[r]]
        /\ used_by[r_i[r]] # {r}
        /\ wpc \in InUpdate

\* The slots whose word has the pin bit of process r.
PinsOf(r) == {i \in SlotIdx : r \in used_by[i]}

\* C14: a reader that is killed leaves its pin bit on at most one slot, and
\* when the ReaderReset of the restarted reader has completed its pin bit is
\* on no slot.
C14_ReaderCrashRecovery ==
    [][\A r \in Readers :
          /\ (rpc[r] # "dead" /\ rpc'[r] = "dead") => Cardinality(PinsOf(r)) <= 1
          /\ (rpc[r] \in {"reset_load", "reset_and"} /\ rpc'[r] = "has")
                 => \A i \in SlotIdx : r \notin used_by'[i]]_vars

\* C15: while the writer is dead (killed and not restarted), no step of a
\* ReaderLock call ends the reader with an exception, and the slot that
\* ReaderLock returns holds a completely written message.
C15_SurvivorsContinue ==
    [][\A r \in Readers :
          wpc = "dead" =>
              /\ (rpc[r] \in {"load_id", "load_state", "cas"} => rpc'[r] # "aborted")
              /\ LockReturns(r) => Complete(message[locked_message_handle_'[r]])]_vars

\* C16: no reader process driven by main() is ever ended by one of the
\* exceptions of ReaderLock, ReaderUnlock, Consumer::LockMessage or
\* Consumer::UnlockMessage.
C16_NoCallerErrors ==
    \A r \in Readers :
        err[r] \notin {"DOUBLE_LOCK", "NOT_LOCKED", "CONSUMER_EMPTY",
                       "CONSUMER_DOUBLE_LOCK", "CONSUMER_NOT_LOCKED"}

\* How far the writer is into WriterReset or WriterUpdateMessage, and a
\* reader into ReaderReset or ReaderUnlock, counted in their own steps.
WriterRank ==
    CASE wpc \in {"wreset", "scan"} -> w_i
      [] wpc = "write_lo" -> NumSlots
      [] wpc = "write_hi" -> NumSlots + 1
      [] wpc = "mark" -> NumSlots + 2
      [] wpc = "publish" -> NumSlots + 3
      [] wpc = "clear" -> NumSlots + 4
      [] OTHER -> NumSlots + 5
ReaderRank(r) ==
    CASE rpc[r] = "reset_load" -> 2 * r_i[r]
      [] rpc[r] = "reset_and" -> 2 * r_i[r] + 1
      [] rpc[r] = "unlock_load" -> 0
      [] rpc[r] = "unlock_and" -> 1
      [] OTHER -> 2 * NumSlots
InReset(r) == rpc[r] \in {"reset_load", "reset_and"}
InUnlock(r) == rpc[r] \in {"unlock_load", "unlock_and"}

\* C17: WriterUpdateMessage, WriterReset, ReaderUnlock and ReaderReset are
\* wait-free.  Every step the caller takes inside one of them ends the call
\* or takes it strictly further into the same call, and a call is never
\* further than NumSlots + 4 (writer) or 2 * NumSlots - 1 (reader) steps in:
\* it ends within NumSlots + 5, respectively 2 * NumSlots, of the caller's
\* own steps, whatever the other processes do in between.
C17_WaitFree ==
    [][/\ (wpc \in InUpdate \cup {"wreset"} /\ wvars' # wvars) =>
              /\ WriterRank <= NumSlots + 4
              /\ \/ wpc' \in {"idle", "aborted", "dead"}
                 \/ /\ (wpc = "wreset") = (wpc' = "wreset")
                    /\ WriterRank' > WriterRank
       /\ \A r \in Readers :
              ((InReset(r) \/ InUnlock(r)) /\ <<rpc[r], r_i[r]>>' # <<rpc[r], r_i[r]>>) =>
                  /\ ReaderRank(r) <= 2 * NumSlots - 1
                  /\ \/ ~(InReset(r) \/ InUnlock(r))'
                     \/ /\ InReset(r)' = InReset(r)
                        /\ ReaderRank(r)' > ReaderRank(r)]_vars

\* The writer is at the last step of a WriterUpdateMessage whose scan went
\* past slot 0, while one reader is in ReaderReset after a kill and another
\* holds a pin.
C17_Witness ==
    /\ wpc = "clear"
    /\ next_slot_index >= 1
    /\ \E r \in Readers : InReset(r)
    /\ \E r \in Readers : HoldsHandle(r)

\* The CAS of ReaderLock fails and the loop body runs again.
Retry(r) == rpc[r] = "cas" /\ rpc'[r] = "load_id"

\* C18, as stated: the loop of a ReaderLock call restarts at most as often as
\* WriterUpdateMessage calls overlap it, so a call that no
\* WriterUpdateMessage call overlaps never restarts.
C18_RetryOnlyWhenPublishing ==
    [][\A r \in Readers : Retry(r) => ~quiet[r]]_vars

\* C18, amended: in a ReaderLock call that no WriterUpdateMessage call
\* overlaps the loop restarts only after a failure of
\* atomic_compare_exchange_weak that is spurious (the word equals the
\* expected value) or due to other readers (the word differs from the
\* expected value in pin bits of other processes only).
C18_QuietRetryCauses ==
    [][\A r \in Readers :
          (Retry(r) /\ quiet[r]) =>
              used_by[slot_index[r]] \ (Readers \ {r}) =
                  current_value[r] \ (Readers \ {r})]_vars

\* A ReaderLock call that no WriterUpdateMessage call has overlapped is in
\* its second or a later iteration (new_value is assigned, by an iteration
\* whose CAS failed), and the other reader holds a pin on the current slot.
C18_Witness ==
    \E r \in Readers :
        /\ rpc[r] = "load_id"
        /\ quiet[r]
        /\ new_value[r] # Uninit
        /\ \E q \in Readers \ {r} :
               /\ HoldsHandle(q)
               /\ locked_message_handle_[q] = current_slot_id_ - 1


\* main(): reader r reads msg->val in this step.
ReadsValue(r) == rpc[r] = "read" /\ rpc'[r] = "unlock_load"

\* C19: scenario S6.  One writer publishes 1, 2, ... in that order, one
\* reader repeats lock, read, unlock, no process is killed: every value the
\* reader reads is a published value, never a mix of two, and is not less
\* than the value it read before.  (The order "strictly increasing" of the
\* scenario also excludes reading one publication twice.)
C19_S6ReadsInOrder ==
    [][\A r \in Readers :
          (ReadsValue(r) /\ kills = 0) =>
              /\ Observed(locked_message_handle_[r]) # Torn
              /\ Observed(locked_message_handle_[r]) >= 1
              /\ Observed(locked_message_handle_[r]) >= seen[r]]_vars


\* C20: a ReaderLock call that no WriterUpdateMessage call overlaps, made
\* after at least one publish, does not throw, and the slot it returns is
\* the current one and holds the complete message of the latest publish.
C20_LockReadsLatest ==
    [][\A r \in Readers :
          (InLock(r) /\ quiet[r]) =>
              /\ rpc'[r] # "aborted"
              /\ LockReturns(r) =>
                    /\ locked_message_handle_'[r] = current_slot_id_ - 1
                    /\ Complete(message[locked_message_handle_'[r]])
                    /\ Observed(locked_message_handle_'[r]) = published
                    /\ r \in used_by'[locked_message_handle_'[r]]]_vars

ExaminesSlot(r) == rpc[r] = "load_state" /\ rpc'[r] # "load_state"

UnlockClears(r) == rpc[r] = "unlock_and" /\ rpc'[r] = "has"

\* C23: ReaderLock calls of distinct processes that no WriterUpdateMessage
\* call overlaps or separates all return, and return the same slot; the
\* ReaderUnlock of a handle such a call returned does not throw, whatever
\* the order of the unlocks and whatever was published since; and when the
\* last holder of the slot has unlocked it no reader-pin bit is left on it.
C23_SharedPins ==
    [][\A r \in Readers :
          /\ (InLock(r) /\ quiet[r]) => rpc'[r] # "aborted"
          /\ (LockReturns(r) /\ quiet[r]) =>
                \A q \in Readers \ {r} :
                    (rpc[q] = "read" /\ quiet[q] /\ lock_pub[q] = lock_pub[r]) =>
                        locked_message_handle_'[r] = locked_message_handle_[q]
          /\ (rpc[r] = "unlock_load" /\ HoldsHandle(r) /\ quiet[r]) =>
                rpc'[r] # "aborted"
          /\ (/\ UnlockClears(r)
              /\ quiet[r]
              /\ \A q \in Readers \ {r} :
                    ~(HoldsHandle(q) /\ locked_message_handle_[q] =
                                            locked_message_handle_[r])) =>
                used_by'[locked_message_handle_[r]] \cap
                    (0 .. (number_of_processes - 1)) = {}]_vars

\* C24: ReaderUnlock(r, handle) throws "Attempt to unlock not locked slot"
\* exactly when bit r is not set on slots[handle] at its load, whichever
\* call set the bit, and then changes nothing; otherwise its fetch_and takes
\* bit r off slots[handle] and changes no other bit, no other slot, no
\* message and not current_slot_id_.
C24_UnlockByBit ==
    [][\A r \in Readers :
          /\ \A handle \in SlotIdx :
                CallReaderUnlock(r, handle) =>
                    /\ shared' = shared
                    /\ IF r \in used_by[handle]
                       THEN /\ rpc'[r] = "unlock_and"
                            /\ locked_message_handle_'[r] = handle
                            /\ err'[r] = ""
                       ELSE /\ rpc'[r] = "aborted"
                            /\ err'[r] = "NOT_LOCKED"
          /\ UnlockClears(r) =>
                /\ used_by' = [used_by EXCEPT
                                  ![locked_message_handle_[r]] = @ \ {r}]
                /\ current_slot_id_' = current_slot_id_
                /\ message' = message]_vars

\* A ReaderUnlock(r, handle) is about to take bit r off a slot that is no
\* longer the current one and carries another bit, while the ReaderUnlock
\* of the other reader has thrown.
C24_Witness ==
    \E r \in Readers :
        /\ rpc[r] = "unlock_and"
        /\ locked_message_handle_[r] # current_slot_id_ - 1
        /\ r \in used_by[locked_message_handle_[r]]
        /\ used_by[locked_message_handle_[r]] # {r}
        /\ \E q \in Readers \ {r} : rpc[q] = "aborted" /\ err[q] = "NOT_LOCKED"

\* The free-slot scan of WriterUpdateMessage examines slots[w_i] in this step.
WriterScanStep == wpc = "scan" /\ (w_i' # w_i \/ wpc' # "scan")

\* C25: a WriterUpdateMessage whose scan finds used_by # 0 on a slot does
\* not choose that slot, and when it has found used_by # 0 on every slot it
\* throws "No free slots for writer"; the scan changes neither
\* current_slot_id_ nor any used_by word nor any message.
C25_NoFreeSlotFails ==
    [][WriterScanStep =>
          /\ shared' = shared
          /\ used_by[w_i] # {} =>
                IF w_i = NumSlots - 1
                THEN /\ wpc' = "aborted"
                     /\ err'[WriterIndex] = "NO_FREE_SLOT"
                ELSE /\ wpc' = "scan"
                     /\ w_i' = w_i + 1
                     /\ err' = err]_vars

\* WriterUpdateMessage has thrown while caller 0 holds a pin on every slot.
C25_Witness ==
    /\ wpc = "aborted"
    /\ err[WriterIndex] = "NO_FREE_SLOT"
    /\ \A i \in SlotIdx : 0 \in used_by[i]
    /\ rpc[0] = "has"

\* C26: Consumer::LockMessage throws when locked_message_handle_ holds a
\* handle and Consumer::UnlockMessage throws when it holds none, both with
\* the container unchanged; and whatever the adapter calls were, each
\* consumer's process has its bit set on at most one slot.
C26_OnePinPerConsumer ==
    [][\A r \in Readers :
          /\ (/\ rpc[r] = "lock"
              /\ rpc'[r] # "lock"
              /\ locked_message_handle_[r] # NoHandle) =>
                 /\ rpc'[r] = "aborted"
                 /\ err'[r] = "CONSUMER_DOUBLE_LOCK"
                 /\ shared' = shared
                 /\ locked_message_handle_'[r] = locked_message_handle_[r]
          /\ (/\ rpc[r] = "unlock_load"
              /\ rpc'[r] # "unlock_load"
              /\ locked_message_handle_[r] = NoHandle) =>
                 /\ rpc'[r] = "aborted"
                 /\ err'[r] = "CONSUMER_NOT_LOCKED"
                 /\ shared' = shared
          /\ Cardinality(PinsOf(r)) <= 1
          /\ Cardinality(PinsOf(r)') <= 1]_vars

\* C27: main() started with an index argument outside
\* [0, number_of_processes), the index number_of_processes and negative
\* ones included, returns 1 and constructs neither its Producer nor a
\* Consumer: no process with such an index ever runs on the container.
C27_RejectsOutOfRange ==
    [][\A a \in ArgValues :
          (Main(a) /\ a \notin 0 .. (number_of_processes - 1)) =>
              /\ a \in rejected'
              /\ rpc' = rpc
              /\ shared' = shared]_vars

\* The zero-filled container.
AllZero ==
    /\ current_slot_id_ = 0
    /\ \A i \in SlotIdx : used_by[i] = {}
    /\ \A i \in SlotIdx : message[i] = [lo |-> NoMessage, hi |-> NoMessage]

\* A step of WriterReset, or of the ReaderReset of some reader.
ResetStep ==
    \/ WriterResetStep
    \/ \E r \in Readers : InReset(r) /\ (rpc'[r] # rpc[r] \/ r_i'[r] # r_i[r])

\* C28: the zero-filled container is a state to start from.  On it IsEmpty()
\* is true and no step of WriterReset or ReaderReset changes it; the first
\* WriterUpdateMessage finds a free slot and makes the container non-empty;
\* and a ReaderLock that returns after that publish point and before the
\* next one returns a slot that holds the first message, complete, and does
\* not throw when the caller has no pin.
C28_ZeroIsInitial ==
    [][/\ AllZero => IsEmpty
       /\ (AllZero /\ ResetStep) => shared' = shared
       /\ (wpc = "scan" /\ npub = 1) => wpc' # "aborted"
       /\ published = 1 => current_slot_id_ = 1
       /\ published' = 1 => current_slot_id_' = 1
       /\ \A r \in Readers :
             published = 1 =>
                /\ (InLock(r) /\ PinsOf(r) = {}) => rpc'[r] # "aborted"
                /\ LockReturns(r) =>
                      /\ Complete(message[locked_message_handle_'[r]])
                      /\ message[locked_message_handle_'[r]].lo =
                             [val |-> 1, pub |-> 1]]_vars

\* ReaderLock has returned the slot of the first message to one reader
\* while the other reader is inside ReaderReset, the first publish being
\* the only one so far.
C28_Witness ==
    /\ published = 1
    /\ npub = 1
    /\ \E r \in Readers :
          /\ rpc[r] = "read"
          /\ locked_message_handle_[r] = 0
          /\ message[0].lo = [val |-> 1, pub |-> 1]
          /\ \E q \in Readers \ {r} : InReset(q)

\* WriterUpdateMessage stores one half of the message in this step.
WriterWrites == wpc \in {"write_lo", "write_hi"} /\ wpc' # wpc

\* C29: the steps of WriterUpdateMessage come in this order.  The message
\* is stored into the chosen slot, which is not the current one, while
\* that slot's used_by is 0; then the writer bit is set on the slot, whose
\* message is complete by then; then the slot's index + 1 is stored into
\* current_slot_id_; then the writer bit of the slot that was current is
\* cleared.  So the slot current_slot_id_ designates always holds a
\* complete message.
C29_PublishOrder ==
    [][/\ WriterWrites =>
             /\ used_by[next_slot_index] = {}
             /\ next_slot_index # current_slot_id_ - 1
             /\ \A i \in SlotIdx \ {next_slot_index} : message'[i] = message[i]
       /\ (wpc = "mark" /\ wpc' = "publish") =>
             /\ used_by[next_slot_index] = {}
             /\ Complete(message[next_slot_index])
             /\ message[next_slot_index].lo = [val |-> prod_value, pub |-> npub]
             /\ used_by' = [used_by EXCEPT
                               ![next_slot_index] = @ \cup {used_by_writer}]
       /\ (wpc = "publish" /\ wpc' = "clear") =>
             /\ used_by_writer \in used_by[next_slot_index]
             /\ current_slot_id_' = next_slot_index + 1
             /\ old_slot_id' = current_slot_id_
       /\ (wpc = "clear" /\ wpc' = "idle") =>
             used_by' = IF old_slot_id > 0
                        THEN [used_by EXCEPT
                                 ![old_slot_id - 1] = @ \ {used_by_writer}]
                        ELSE used_by
       /\ current_slot_id_ # 0 => Complete(message[current_slot_id_ - 1])
       /\ current_slot_id_' # 0 => Complete(message'[current_slot_id_' - 1])]_vars

\* Reader p makes a step of ReaderLock, ReaderUnlock or ReaderReset that
\* stores into a used_by word.
OwnStore(p) ==
    /\ rpc[p] \in {"cas", "unlock_and", "reset_and"}
    /\ rpc'[p] # rpc[p]

\* C30: bit p of a used_by word is set only by the compare-and-swap of p's
\* own ReaderLock and cleared only by p's own ReaderUnlock or ReaderReset: no
\* step of the writer and no step of another reader changes it.
C30_PinBitOwned ==
    [][\A p \in Readers : \A i \in SlotIdx :
          ((p \in used_by[i]) # (p \in used_by'[i])) =>
              /\ OwnStore(p)
              /\ p \in used_by'[i] => rpc[p] = "cas"
              /\ p \notin used_by'[i] => rpc[p] \in {"unlock_and", "reset_and"}]_vars

\* C31: current_slot_id_ is always in [0, number_of_processes + 1]; no step,
\* of an operation, a kill or a restart, takes it from a non-zero value to
\* 0, so IsEmpty() once false stays false; and the slot_index a ReaderLock
\* computes from it is the index of a slot.
C31_SlotIdRange ==
    [][/\ current_slot_id_ \in 0 .. NumSlots
       /\ current_slot_id_' \in 0 .. NumSlots
       /\ current_slot_id_ # 0 => current_slot_id_' # 0
       /\ ~IsEmpty => ~IsEmpty'
       /\ \A r \in Readers :
             rpc'[r] \in {"load_state", "cas"} => slot_index'[r] \in SlotIdx]_vars

\* The restarted writer is inside WriterReset on a non-empty container, past
\* the current slot, while a reader is about to load the word of the slot
\* whose index it computed.
C31_Witness ==
    /\ kills > 0
    /\ wpc = "wreset"
    /\ current_slot_id_ # 0
    /\ w_i > current_slot_id_ - 1
    /\ \E r \in Readers : rpc[r] = "load_state"

\* C32: on a non-empty container the slot current_slot_id_ designates has
\* its writer bit set.  No step clears the writer bit of a slot that is the
\* current one before or after the step (WriterUpdateMessage clears it on
\* the slot current_slot_id_ has left, WriterReset spares the current slot),
\* and a ReaderLock that loads the word of the slot that is still current
\* finds the bit set and does not take the `continue`.
C32_CurrentSlotMarked ==
    [][/\ current_slot_id_ # 0 =>
             used_by_writer \in used_by[current_slot_id_ - 1]
       /\ current_slot_id_' # 0 =>
             used_by_writer \in used_by'[current_slot_id_' - 1]
       /\ \A i \in SlotIdx :
             (used_by_writer \in used_by[i] /\ used_by_writer \notin used_by'[i]) =>
                 /\ i # current_slot_id_ - 1
                 /\ i # current_slot_id_' - 1
       /\ \A r \in Readers :
             (/\ ExaminesSlot(r)
              /\ rpc'[r] # "dead"
              /\ slot_index[r] = current_slot_id_ - 1) =>
                 /\ used_by_writer \in current_value'[r]
                 /\ rpc'[r] = "cas" => new_value'[r] # Uninit]_vars

\* The writer is between its publish point and the clearing of the slot
\* that was current, which still has the writer bit, while a reader is about
\* to load the word of the new current slot and a process has been killed.
C32_Witness ==
    /\ wpc = "clear"
    /\ old_slot_id > 0
    /\ used_by_writer \in used_by[old_slot_id - 1]
    /\ kills > 0
    /\ \E r \in Readers :
          rpc[r] = "load_state" /\ slot_index[r] = current_slot_id_ - 1

====
